---------------------------- MODULE Spec2Model ----------------------------
(***************************************************************************)
(* ytermusic: the incremental search screen (src/src/term/search.rs), the  *)
(* cooperative shutdown wrapper (src/src/main.rs) and the extraction of    *)
(* playlists and texts from JSON (src/ytpapi/src/structs.rs).              *)
(*                                                                         *)
(* Strings are sequences of one-character strings.  A Video is identified  *)
(* by its video_id (an integer); Title and Author give its fields.  The    *)
(* key-press handler runs on the UI thread and is one action; the spawned  *)
(* tasks run on tokio worker threads and take one action per poll or per   *)
(* access to a shared lock (DATABASE, list).                               *)
(***************************************************************************)
EXTENDS Integers, Sequences, FiniteSets, Bags, TLC

VARIABLES
    text,           \* Search.text
    search_handle,  \* Search.search_handle: 0 is None, t > 0 the handle of remote task t
    list,           \* Search.list: the contents of the shared ListItem<Status>
    api,            \* Search.api is Some (TRUE) or None (FALSE)
    DATABASE,       \* crate::DATABASE, the local index: a sequence of video ids
    tasks,          \* the remote-search tasks spawned at search.rs:121, in spawn order
    expansions,     \* the playlist tasks spawned at search.rs:141, in spawn order
    log,            \* the lines given to log_: a bag of <<"search", task>>, <<"browse", task>>
    searchCalls,    \* the api.search calls issued: <<task, text>>
    alive,          \* main.rs: wrapped tasks (run_service) that are spawned and not ended
    SIGNALING_STOP, \* main.rs: the number of () messages queued in the channel
    shutdowns,      \* main.rs: the number of calls of shutdown()
    stopped,        \* main.rs: wrapped tasks ended by the recv_async branch of the select
    wrapBit,        \* flips each time run_service wraps a task
    action_sender,  \* Search.action_sender: the SoundActions sent to the player, in order
    downloads,      \* the videos given to tasks::download::start_task_unary, in order
    response,       \* the EventResponse returned by the last call of a handler of the screen
    executed,       \* the call of Search::execute_status the last handler made, if any
    value,          \* structs.rs: the serde_json Value given to the function under call
    call,           \* structs.rs: the function called on value, with its other arguments
    ret,            \* structs.rs: what the call returned
    applied         \* structs.rs: the paths of the nodes the transformer was applied to

searchVars == <<text, search_handle, list, api, DATABASE, tasks, expansions, log, searchCalls>>
stopVars == <<alive, SIGNALING_STOP, shutdowns, stopped, wrapBit>>
screenVars == <<action_sender, downloads, response, executed>>
jsonVars == <<value, call, ret, applied>>
vars == <<text, search_handle, list, api, DATABASE, tasks, expansions, log, searchCalls,
          alive, SIGNALING_STOP, shutdowns, stopped, wrapBit,
          action_sender, downloads, response, executed, value, call, ret, applied>>

----------------------------------------------------------------------------
(* Bounds of the model *)

\* the longest text the model types
MaxText == 2
\* the number of input-changed transitions (remote tasks) of one run
MaxChanges == 2
\* the number of videos of the local index at start
DbSize == 102
\* the number of wrapped tasks alive at once in the shutdown model
MaxAlive == 102
\* the number of shutdown() calls of one run
MaxShutdowns == 1

\* .take(100) at search.rs:114
LocalCap == 100
\* for _ in 0..100 at main.rs:48
StopCount == 100

\* the longest array of the innermost level of a crawled document
MaxWidth == 2
\* the number of videos selected in one run
MaxSelect == 1
\* the longest "runs" array of a document
MaxRuns == 3

----------------------------------------------------------------------------
(* Strings *)

KeyChars == {"B", " "}

\* char::to_lowercase on the model's alphabet
LowerChar(c) == CASE c = "A" -> "a" [] c = "B" -> "b" [] OTHER -> c

to_lowercase(s) == [i \in 1..Len(s) |-> LowerChar(s[i])]

RECURSIVE trim_start(_)
trim_start(s) == IF s # <<>> /\ Head(s) = " " THEN trim_start(Tail(s)) ELSE s

RECURSIVE trim_end(_)
trim_end(s) ==
    IF s # <<>> /\ s[Len(s)] = " " THEN trim_end(SubSeq(s, 1, Len(s) - 1)) ELSE s

trim(s) == trim_end(trim_start(s))

\* str::contains: the needle occurs as a contiguous substring (the empty needle always does)
contains(hay, needle) ==
    \E i \in 0..(Len(hay) - Len(needle)) : SubSeq(hay, i + 1, i + Len(needle)) = needle

\* String::pop
pop(s) == IF s = <<>> THEN s ELSE SubSeq(s, 1, Len(s) - 1)

\* String::push
push(s, c) == Append(s, c)

----------------------------------------------------------------------------
(* Videos and playlists *)

\* the one video of the remote catalogue that the local index does not hold at start
RemoteOnly == 0

\* Video.title: every query but the empty one matches a few videos only
Title(v) ==
    CASE v = RemoteOnly -> <<"b", "B">>
      [] v = 1 -> <<"A", "b">>
      [] v % 50 = 7 -> <<"a", " ", "B">>
      [] OTHER -> <<"c">>

\* Video.author
Author(v) == IF v % 50 = 2 THEN <<"b", "B">> ELSE <<"d">>

Local(v) == [st |-> "Local", v |-> v]
Unknown(v) == [st |-> "Unknown", v |-> v]
PlayList(p, e) == [st |-> "PlayList", p |-> p, e |-> e]

\* ytpapi::Playlist: the catalogue names the playlists of a search after its query
Playlist(q, k) == [name |-> q, subtitle |-> <<>>, browse_id |-> k]

----------------------------------------------------------------------------
(* The remote catalogue: what api.search and api.browse_playlist may answer *)

Err == [ok |-> FALSE]
Ok(v) == [ok |-> TRUE, v |-> v]

\* Ok((videos, playlists)) or Err(_)
SearchResponses(q) ==
    { Err,
      Ok([e |-> <<1, RemoteOnly>>, p |-> <<>>]),
      Ok([e |-> <<RemoteOnly>>, p |-> <<Playlist(q, 1)>>]) }

\* Ok(videos) or Err(_)
BrowseResponses == { Err, Ok(<<>>), Ok(<<RemoteOnly>>) }

\* encode(&text).replace("%20", "+") on the model's alphabet: letters are kept, a space
\* becomes "%20" and then "+"
encode(s) == [i \in 1..Len(s) |-> IF s[i] = " " THEN "+" ELSE s[i]]

----------------------------------------------------------------------------
(* The list widget, ListItem<Status> of item_list.rs *)

\* ListItem::update_contents: the contents are replaced wholesale
update_contents(l, new) == new

\* ListItem::add_element: one element is appended
add_element(l, x) == Append(l, x)

----------------------------------------------------------------------------
(* Option, and EventResponse, the value a handler of the screen returns *)

None == [some |-> FALSE]
Some(v) == [some |-> TRUE, v |-> v]

EventNone == [msg |-> "None"]

----------------------------------------------------------------------------
(* Search::on_key_press *)

Keys ==
    {[code |-> "Char", c |-> c] : c \in KeyChars}
        \cup {[code |-> "Backspace", c |-> ""], [code |-> "Other", c |-> ""]}

\* search.rs:86-94
EditText(t, key) ==
    CASE key.code = "Backspace" -> pop(t)
      [] key.code = "Char" -> push(t, key.c)
      [] OTHER -> t

\* search.rs:109-111, with text already lowercased
MatchesLocal(v, lowered) ==
    contains(to_lowercase(Title(v)), lowered) \/ contains(to_lowercase(Author(v)), lowered)

\* the matches are not cut to the first 100
LocalMatches_Uncapped(db, t) ==
    LET lowered == to_lowercase(t)
        hits == SelectSeq(db, LAMBDA v : MatchesLocal(v, lowered))
    IN  [i \in 1..Len(hits) |-> Local(hits[i])]

\* search.rs:103-115
LocalMatches(db, t) ==
    LET lowered == to_lowercase(t)
        hits == SelectSeq(db, LAMBDA v : MatchesLocal(v, lowered))
        n == IF Len(hits) < LocalCap THEN Len(hits) ELSE LocalCap
    IN  [i \in 1..n |-> Local(hits[i])]

\* the handle is taken and dropped without abort()
AbortHandle_Forgotten(ts, h) == ts

\* search.rs:99-101: JoinHandle::abort; a task that has ended is not affected
AbortHandle(ts, h) ==
    IF h # 0 /\ ts[h].pc \notin {"done", "cancelled"}
    THEN [ts EXCEPT ![h].aborted = TRUE]
    ELSE ts

\* search.rs:121-123: the task as spawned, waiting for its 300ms sleep
NewTask(t, local) ==
    [text |-> t, local |-> local, pc |-> "sleep", aborted |-> FALSE,
     res |-> "none", item |-> <<>>]

\* the transition also drops the playlist tasks spawned so far
InputChanged_TracksExpansions(newtext) ==
    LET local == LocalMatches(DATABASE, newtext)
        aborted == AbortHandle(tasks, search_handle)
    IN  /\ Len(tasks) < MaxChanges
        /\ list' = update_contents(list, local)
        /\ IF api
           THEN /\ tasks' = Append(aborted, NewTask(newtext, local))
                /\ search_handle' = Len(tasks) + 1
           ELSE /\ tasks' = aborted
                /\ search_handle' = 0
        /\ expansions' =
              [x \in 1..Len(expansions) |-> [expansions[x] EXCEPT !.pc = "done"]]

\* search.rs:99-175: the text has changed
InputChanged(newtext) ==
    LET local == LocalMatches(DATABASE, newtext)
        aborted == AbortHandle(tasks, search_handle)
    IN  /\ Len(tasks) < MaxChanges
        /\ list' = update_contents(list, local)
        /\ IF api
           THEN /\ tasks' = Append(aborted, NewTask(newtext, local))
                /\ search_handle' = Len(tasks) + 1
           ELSE /\ tasks' = aborted
                /\ search_handle' = 0
        /\ expansions' = expansions

on_key_press_ComparesUntrimmed(key) ==
    LET textbefore == text
        newtext == EditText(text, key)
    IN  /\ Len(newtext) <= MaxText
        /\ text' = newtext
        /\ IF textbefore = newtext
           THEN UNCHANGED <<search_handle, list, tasks, expansions>>
           ELSE InputChanged(newtext)
        /\ response' = EventNone
        /\ UNCHANGED <<api, DATABASE, log, searchCalls>>
        /\ executed' = None
        /\ UNCHANGED <<action_sender, downloads>>
        /\ UNCHANGED <<stopVars, jsonVars>>

\* search.rs:78-176, for the keys the list widget does not take
on_key_press(key) ==
    LET textbefore == trim(text)
        newtext == EditText(text, key)
    IN  /\ Len(newtext) <= MaxText
        /\ text' = newtext
        /\ IF textbefore = trim(newtext)
           THEN UNCHANGED <<search_handle, list, tasks, expansions>>
           ELSE InputChanged(newtext)
        /\ response' = EventNone
        /\ UNCHANGED <<api, DATABASE, log, searchCalls>>
        /\ executed' = None
        /\ UNCHANGED <<action_sender, downloads>>
        /\ UNCHANGED <<stopVars, jsonVars>>

----------------------------------------------------------------------------
(* The other handlers of the screen, search.rs:60-84 and 198-244 *)

\* ManagerMessage::ChangeState(screen).event()
ChangeState(screen) == [msg |-> "ChangeState", to |-> screen]
\* ManagerMessage::PlayerFrom(screen).event()
PlayerFrom(screen) == [msg |-> "PlayerFrom", from |-> screen]
\* ManagerMessage::Inspect(name, screen, videos)
Inspect(name, screen, v) == [msg |-> "Inspect", name |-> name, from |-> screen, v |-> v]
\* message.pass_to(screen).event()
PassTo(screen, message) == [msg |-> "PassTo", to |-> screen, m |-> message]

\* SoundAction::AddVideoUnary(video)
AddVideoUnary(v) == [action |-> "AddVideoUnary", v |-> v]

\* Search.goto: set by Search::new and never written afterwards
goto == "MusicPlayer"

\* the entries the list widget hands to the screen on a click or on a key it takes:
\* the first entry and every entry that is not Local
Selectable(l) == {i \in 1..Len(l) : i = 1 \/ l[i].st # "Local"}

execute_status_AlwaysNavigates(e, control) ==
    /\ executed' = Some([e |-> e, control |-> control])
    /\ IF e.st \in {"Local", "Unknown"}
       THEN /\ action_sender' = Append(action_sender, AddVideoUnary(e.v))
            /\ downloads' = Append(downloads, e.v)
            /\ response' = PlayerFrom("Playlist")
       ELSE /\ UNCHANGED <<action_sender, downloads>>
            /\ response' = PassTo("PlaylistViewer", Inspect(e.p.name, "Search", e.e))

\* search.rs:227-244
execute_status(e, control) ==
    /\ executed' = Some([e |-> e, control |-> control])
    /\ IF e.st \in {"Local", "Unknown"}
       THEN /\ action_sender' = Append(action_sender, AddVideoUnary(e.v))
            /\ downloads' = Append(downloads, e.v)
            /\ response' = IF control THEN EventNone ELSE PlayerFrom("Playlist")
       ELSE /\ UNCHANGED <<action_sender, downloads>>
            /\ response' = PassTo("PlaylistViewer", Inspect(e.p.name, "Search", e.e))

\* the model follows the selection of MaxSelect videos
Followed(e) == e.st = "PlayList" \/ Len(action_sender) < MaxSelect

\* search.rs:60-76; i = 0 is a click the list widget gives None for
on_mouse_press(i, control) ==
    /\ IF i = 0
       THEN /\ response' = EventNone
            /\ executed' = None
            /\ UNCHANGED <<action_sender, downloads>>
       ELSE /\ i \in Selectable(list)
            /\ Followed(list[i])
            /\ execute_status(list[i], control)
    /\ UNCHANGED <<searchVars, stopVars, jsonVars>>

on_key_press_Esc_Aborts ==
    /\ response' = ChangeState(goto)
    /\ executed' = None
    /\ tasks' = AbortHandle(tasks, search_handle)
    /\ search_handle' = 0
    /\ UNCHANGED <<action_sender, downloads>>
    /\ UNCHANGED <<text, list, api, DATABASE, expansions, log, searchCalls>>
    /\ UNCHANGED <<stopVars, jsonVars>>

\* search.rs:79-81
on_key_press_Esc ==
    /\ response' = ChangeState(goto)
    /\ executed' = None
    /\ UNCHANGED <<action_sender, downloads>>
    /\ UNCHANGED <<searchVars, stopVars, jsonVars>>

\* search.rs:82-84, for a key the list widget answers with an entry
on_key_press_entry(i, control) ==
    /\ i \in Selectable(list)
    /\ Followed(list[i])
    /\ execute_status(list[i], control)
    /\ UNCHANGED <<searchVars, stopVars, jsonVars>>

\* search.rs:198-200
handle_global_message ==
    /\ response' = EventNone
    /\ executed' = None
    /\ UNCHANGED <<action_sender, downloads>>
    /\ UNCHANGED <<searchVars, stopVars, jsonVars>>

\* search.rs:202-204
close ==
    /\ response' = EventNone
    /\ executed' = None
    /\ UNCHANGED <<action_sender, downloads>>
    /\ UNCHANGED <<searchVars, stopVars, jsonVars>>

\* search.rs:206-208
open ==
    /\ response' = EventNone
    /\ executed' = None
    /\ UNCHANGED <<action_sender, downloads>>
    /\ UNCHANGED <<searchVars, stopVars, jsonVars>>

----------------------------------------------------------------------------
(* The remote-search task, search.rs:121-172 *)

\* the task is at an .await and has not been aborted: the runtime polls it
Pollable(t, at) == t \in 1..Len(tasks) /\ tasks[t].pc = at /\ ~tasks[t].aborted

\* the sleep ends although the handle was aborted
SleepOver_Uncancellable(t) == t \in 1..Len(tasks) /\ tasks[t].pc = "sleep"

\* search.rs:123: the task is polled out of its sleep
SleepOver(t) == Pollable(t, "sleep")

\* the answer is taken although the handle was aborted
AnswerTaken_Uncancellable(t) == t \in 1..Len(tasks) /\ tasks[t].pc = "search"

\* search.rs:125: the task is polled out of api.search(..).await
AnswerTaken(t) == Pollable(t, "search")

\* search.rs:123-125: the sleep is over and the search request goes out
SleepElapsed(t) ==
    /\ SleepOver(t)
    /\ tasks' = [tasks EXCEPT ![t].pc = "search"]
    /\ searchCalls' = Append(searchCalls, <<t, encode(tasks[t].text)>>)
    /\ UNCHANGED <<text, search_handle, list, api, DATABASE, expansions, log>>
    /\ UNCHANGED <<stopVars, screenVars, jsonVars>>

Classified_Unknown(db, v) == Unknown(v)

\* search.rs:131-135
Classified(db, v) ==
    IF \E i \in 1..Len(db) : db[i] = v THEN Local(v) ELSE Unknown(v)

\* search.rs:127-137: the loop over the videos
ClassifyAll(db, e) == [i \in 1..Len(e) |-> Classified(db, e[i])]

\* search.rs:141-142: the playlist task as spawned, waiting for api.browse_playlist
NewExpansion(playlist) == [playlist |-> playlist, pc |-> "browse", out |-> "none"]

\* search.rs:138-163: the loop over the playlists spawns one task each
SpawnAll(xs, p) == xs \o [i \in 1..Len(p) |-> NewExpansion(p[i])]

\* search.rs:125-168: the answer of api.search arrives and the match arm runs; the task
\* is then on a worker thread, before its last statement, and no longer at an .await
SearchReturns(t, r) ==
    /\ AnswerTaken(t)
    /\ r \in SearchResponses(tasks[t].text)
    /\ IF r.ok
       THEN /\ tasks' = [tasks EXCEPT ![t].item = ClassifyAll(DATABASE, r.v.e),
                                      ![t].res = "ok", ![t].pc = "write"]
            /\ expansions' = SpawnAll(expansions, r.v.p)
            /\ log' = log
       ELSE /\ tasks' = [tasks EXCEPT ![t].res = "err", ![t].pc = "write"]
            /\ expansions' = expansions
            /\ log' = log (+) SetToBag({<<"search", t>>})
    /\ UNCHANGED <<text, search_handle, list, api, DATABASE, searchCalls>>
    /\ UNCHANGED <<stopVars, screenVars, jsonVars>>

\* the remote items replace the local matches instead of following them
FinalContents_ItemsOnly(task) == task.item

\* search.rs:169-170
FinalContents(task) == task.local \o task.item

WriteResults_StopsOnErr(t) ==
    /\ t \in 1..Len(tasks)
    /\ tasks[t].pc = "write"
    /\ list' = IF tasks[t].res = "err" THEN list ELSE update_contents(list, FinalContents(tasks[t]))
    /\ tasks' = [tasks EXCEPT ![t].pc = "done", ![t].item = <<>>]
    /\ UNCHANGED <<text, search_handle, api, DATABASE, expansions, log, searchCalls>>
    /\ UNCHANGED <<stopVars, screenVars, jsonVars>>

\* search.rs:169-171, reached from both arms of the match
WriteResults(t) ==
    /\ t \in 1..Len(tasks)
    /\ tasks[t].pc = "write"
    /\ list' = update_contents(list, FinalContents(tasks[t]))
    /\ tasks' = [tasks EXCEPT ![t].pc = "done", ![t].item = <<>>]
    /\ UNCHANGED <<text, search_handle, api, DATABASE, expansions, log, searchCalls>>
    /\ UNCHANGED <<stopVars, screenVars, jsonVars>>

\* tokio: an aborted task is dropped when the runtime next finds it at an .await
CancelAtAwait(t) ==
    /\ t \in 1..Len(tasks)
    /\ tasks[t].aborted
    /\ tasks[t].pc \in {"sleep", "search"}
    /\ tasks' = [tasks EXCEPT ![t].pc = "cancelled"]
    /\ UNCHANGED <<text, search_handle, list, api, DATABASE, expansions, log, searchCalls>>
    /\ UNCHANGED <<stopVars, screenVars, jsonVars>>

----------------------------------------------------------------------------
(* The playlist task, search.rs:141-162 *)

\* the is_empty() test is left out
Expanded_NoEmptyCheck(l, playlist, r) ==
    IF r.ok THEN add_element(l, PlayList(playlist, r.v)) ELSE l

\* search.rs:143-156: what the task does to the list with the answer
Expanded(l, playlist, r) ==
    IF r.ok /\ r.v # <<>> THEN add_element(l, PlayList(playlist, r.v)) ELSE l

Outcome(r) == IF ~r.ok THEN "err" ELSE IF r.v = <<>> THEN "empty" ELSE "added"

BrowseReturns(x, r) ==
    /\ x \in 1..Len(expansions)
    /\ expansions[x].pc = "browse"
    /\ r \in BrowseResponses
    /\ list' = Expanded(list, expansions[x].playlist, r)
    /\ log' = IF r.ok THEN log ELSE log (+) SetToBag({<<"browse", x>>})
    /\ expansions' = [expansions EXCEPT ![x].pc = "done", ![x].out = Outcome(r)]
    /\ UNCHANGED <<text, search_handle, api, DATABASE, tasks, searchCalls>>
    /\ UNCHANGED <<stopVars, screenVars, jsonVars>>

----------------------------------------------------------------------------
(* The local index is written by the download system *)

DatabaseInsert ==
    /\ \A i \in 1..Len(DATABASE) : DATABASE[i] # RemoteOnly
    /\ DATABASE' = Append(DATABASE, RemoteOnly)
    /\ UNCHANGED <<text, search_handle, list, api, tasks, expansions, log, searchCalls>>
    /\ UNCHANGED <<stopVars, screenVars, jsonVars>>

----------------------------------------------------------------------------
(* run_service and shutdown, main.rs:33-51.  The wrapped tasks are counted: each is
   at its select!, between its own future and SIGNALING_STOP.1.recv_async() *)

\* main.rs:35-45: a future is wrapped and spawned
run_service ==
    /\ alive < MaxAlive
    /\ alive' = alive + 1
    /\ wrapBit' = ~wrapBit
    /\ UNCHANGED <<SIGNALING_STOP, shutdowns, stopped>>
    /\ UNCHANGED <<searchVars, screenVars, jsonVars>>

\* main.rs:41: the first branch of the select: the task's own future completes
FutureCompletes ==
    /\ alive > 0
    /\ alive' = alive - 1
    /\ UNCHANGED <<SIGNALING_STOP, shutdowns, stopped, wrapBit>>
    /\ UNCHANGED <<searchVars, screenVars, jsonVars>>

\* the message is seen but left in the channel
Received_NotTaken(queue) == queue

\* the messages left in the channel after one recv_async has completed
Received(queue) == queue - 1

\* the task takes its () and goes on running
StoppedBySignal_KeepsRunning ==
    /\ alive > 0
    /\ SIGNALING_STOP > 0
    /\ SIGNALING_STOP' = Received(SIGNALING_STOP)
    /\ UNCHANGED <<alive, stopped, shutdowns, wrapBit>>
    /\ UNCHANGED <<searchVars, screenVars, jsonVars>>

\* main.rs:42: the second branch of the select: the task receives one () and ends
StoppedBySignal ==
    /\ alive > 0
    /\ SIGNALING_STOP > 0
    /\ SIGNALING_STOP' = Received(SIGNALING_STOP)
    /\ alive' = alive - 1
    /\ stopped' = stopped + 1
    /\ UNCHANGED <<shutdowns, wrapBit>>
    /\ UNCHANGED <<searchVars, screenVars, jsonVars>>

\* JoinHandle::abort on a wrapped task (search.rs:100): it is dropped at its select!
AbortWrapped ==
    /\ alive > 0
    /\ alive' = alive - 1
    /\ UNCHANGED <<SIGNALING_STOP, shutdowns, stopped, wrapBit>>
    /\ UNCHANGED <<searchVars, screenVars, jsonVars>>

\* main.rs:47-51
shutdown ==
    /\ shutdowns < MaxShutdowns
    /\ SIGNALING_STOP' = SIGNALING_STOP + StopCount
    /\ shutdowns' = shutdowns + 1
    /\ UNCHANGED <<alive, stopped, wrapBit>>
    /\ UNCHANGED <<searchVars, screenVars, jsonVars>>

----------------------------------------------------------------------------
(* serde_json::Value, as structs.rs uses it.  The members of an
   Object are a sequence of <<key, value>> pairs in the order Map::values()
   gives them (key order), with no key twice. *)

Null == [k |-> "null"]
Number(n) == [k |-> "number", n |-> n]
String(s) == [k |-> "string", s |-> s]
Array(a) == [k |-> "array", a |-> a]
Object(o) == [k |-> "object", o |-> o]

\* Map::values()
values(o) == [i \in 1..Len(o) |-> o[i][2]]
\* Map::contains_key
contains_key(o, key) == \E i \in 1..Len(o) : o[i][1] = key
\* Map::get
get(o, key) ==
    IF contains_key(o, key)
    THEN Some(o[CHOOSE i \in 1..Len(o) : o[i][1] = key][2])
    ELSE None

----------------------------------------------------------------------------
(* from_json, structs.rs:20-51 *)

\* the transformers the model crawls with: "gt5" yields a number above 5; "has_x"
\* yields an object that has the key "x"; "head" yields a number above 5 and, for
\* an array that starts with such a number, that number
Matchers == {"gt5", "has_x", "head"}

transformer(m, v) ==
    CASE m = "gt5" ->
           IF v.k = "number" /\ v.n > 5 THEN Some(v.n) ELSE None
      [] m = "has_x" ->
           IF v.k = "object" /\ contains_key(v.o, "x") THEN Some(v) ELSE None
      [] m = "head" ->
           IF v.k = "number" /\ v.n > 5 THEN Some(v.n)
           ELSE IF v.k = "array" /\ v.a # <<>> /\ v.a[1].k = "number" /\ v.a[1].n > 5
                THEN Some(v.a[1].n)
                ELSE None

\* Vec::contains
vec_contains(vec, e) == \E i \in 1..Len(vec) : vec[i] = e

push_unique_Always(playlists, e) == Append(playlists, e)

\* structs.rs:28-30: if !playlists.contains(&e) { playlists.push(e); }
push_unique(playlists, e) ==
    IF vec_contains(playlists, e) THEN playlists ELSE Append(playlists, e)

RECURSIVE inner_crawl_Descends(_, _, _, _)
RECURSIVE for_each_Descends(_, _, _, _, _)

inner_crawl_Descends(v, path, m, acc) ==
    LET r == transformer(m, v)
        met == [acc EXCEPT !.applied = Append(@, path)]
        got == IF r.some
               THEN [met EXCEPT !.playlists = push_unique(@, r.v)]
               ELSE met
    IN  CASE v.k = "array" -> for_each_Descends(v.a, 1, path, m, got)
          [] v.k = "object" -> for_each_Descends(values(v.o), 1, path, m, got)
          [] OTHER -> got

for_each_Descends(items, i, path, m, acc) ==
    IF i > Len(items)
    THEN acc
    ELSE for_each_Descends(items, i + 1, path, m,
                           inner_crawl_Descends(items[i], Append(path, i), m, acc))

RECURSIVE inner_crawl(_, _, _, _)
RECURSIVE for_each(_, _, _, _, _)

\* structs.rs:26-47.  acc.playlists is the Vec the crawl fills; acc.applied records
\* each application of the transformer by the path of its node (the child indexes
\* from the root).
inner_crawl(v, path, m, acc) ==
    LET r == transformer(m, v)
        met == [acc EXCEPT !.applied = Append(@, path)]
    IN  IF r.some
        THEN [met EXCEPT !.playlists = push_unique(@, r.v)]
        ELSE CASE v.k = "array" -> for_each(v.a, 1, path, m, met)
               [] v.k = "object" -> for_each(values(v.o), 1, path, m, met)
               [] OTHER -> met

\* a.iter().for_each(..) and a.values().for_each(..), structs.rs:35-44
for_each(items, i, path, m, acc) ==
    IF i > Len(items)
    THEN acc
    ELSE for_each(items, i + 1, path, m, inner_crawl(items[i], Append(path, i), m, acc))

\* the crawl of from_json, before its Ok(..)
crawl(v, m) == inner_crawl(v, <<>>, m, [playlists |-> <<>>, applied |-> <<>>])

from_json(v, m) == Ok(crawl(v, m).playlists)

----------------------------------------------------------------------------
(* get_text and join_clean, structs.rs:125-159 *)

\* [String]::join
RECURSIVE join(_, _)
join(strings, sep) ==
    IF strings = <<>> THEN <<>>
    ELSE IF Len(strings) = 1 THEN strings[1]
    ELSE strings[1] \o sep \o join(Tail(strings), sep)

\* the bullet character U+2022, written in ASCII
Bullet == "*"

\* " ", bullet, " " if dot, else " "
Separator(dot) == IF dot THEN <<" ", Bullet, " ">> ELSE <<" ">>

join_clean_KeepsBlank(strings, dot) ==
    join([i \in 1..Len(strings) |-> trim(strings[i])], Separator(dot))

\* structs.rs:152-159
join_clean(strings, dot) ==
    LET trimmed == [i \in 1..Len(strings) |-> trim(strings[i])]
        kept == SelectSeq(trimmed, LAMBDA x : x # <<>>)
    IN  join(kept, Separator(dot))

RECURSIVE get_text(_, _, _)
RECURSIVE flat_map_get_text(_, _, _)

\* structs.rs:125-150
get_text(v, text_clean, dot) ==
    IF v.k = "string"
    THEN Some(v.s)
    ELSE IF v.k # "object"
    THEN None
    ELSE IF contains_key(v.o, "text")
    THEN IF text_clean /\ Len(values(v.o)) = 1
         THEN None
         ELSE get_text(get(v.o, "text").v, text_clean, dot)
    ELSE IF contains_key(v.o, "runs")
    THEN LET e == get(v.o, "runs").v
         IN  IF e.k # "array"
             THEN None
             ELSE LET k == flat_map_get_text(e.a, text_clean, dot)
                  IN  IF k = <<>> THEN None ELSE Some(join_clean(k, dot))
    ELSE None

\* .iter().flat_map(|x| get_text(x, text_clean, dot)).collect(), structs.rs:138-140
flat_map_get_text(items, text_clean, dot) ==
    IF items = <<>>
    THEN <<>>
    ELSE LET r == get_text(Head(items), text_clean, dot)
             rest == flat_map_get_text(Tail(items), text_clean, dot)
         IN  IF r.some THEN <<r.v>> \o rest ELSE rest

----------------------------------------------------------------------------
(* get_playlist, structs.rs:77-93 *)

\* Value::get with a key: None for a value that is not an object
value_get(v, key) == IF v.k = "object" THEN get(v.o, key) ELSE None

\* Option::and_then(|x| x.get(key))
and_then_get(opt, key) == IF opt.some THEN value_get(opt.v, key) ELSE None

\* Option::and_then(Value::as_str)
and_then_as_str(opt) == IF opt.some /\ opt.v.k = "string" THEN Some(opt.v.s) ELSE None

strip_prefix_Lenient(s, prefix) ==
    IF Len(s) >= Len(prefix) /\ SubSeq(s, 1, Len(prefix)) = prefix
    THEN Some(SubSeq(s, Len(prefix) + 1, Len(s)))
    ELSE Some(s)

\* str::strip_prefix
strip_prefix(s, prefix) ==
    IF Len(s) >= Len(prefix) /\ SubSeq(s, 1, Len(prefix)) = prefix
    THEN Some(SubSeq(s, Len(prefix) + 1, Len(s)))
    ELSE None

\* Option::unwrap_or_default, for a String
unwrap_or_default(opt) == IF opt.some THEN opt.v ELSE <<>>

get_playlist(v) ==
    IF v.k # "object" THEN None
    ELSE IF ~get(v.o, "title").some THEN None
    ELSE LET title_text == get_text(get(v.o, "title").v, TRUE, FALSE)
             subtitle == IF get(v.o, "subtitle").some
                         THEN get_text(get(v.o, "subtitle").v, FALSE, FALSE)
                         ELSE None
             browse_id == and_then_as_str(
                              and_then_get(
                                  and_then_get(get(v.o, "navigationEndpoint"), "browseEndpoint"),
                                  "browseId"))
         IN  IF ~title_text.some THEN None
             ELSE IF ~browse_id.some THEN None
             ELSE IF ~strip_prefix(browse_id.v, <<"V", "L">>).some THEN None
             ELSE Some([name |-> title_text.v,
                        subtitle |-> unwrap_or_default(subtitle),
                        browse_id |-> strip_prefix(browse_id.v, <<"V", "L">>).v])

----------------------------------------------------------------------------
(* The documents the functions of structs.rs are applied to *)

SeqsUpTo(S, n) == UNION {[1..k -> S] : k \in 0..n}
ArraysOf(S, n) == {Array(a) : a \in SeqsUpTo(S, n)}
ObjectsOf(S) ==
    {Object(<<>>)}
      \cup {Object(<< <<key, d>> >>) : key \in {"x", "y"}, d \in S}
      \cup {Object(<< <<"x", d>>, <<"y", e>> >>) : d \in S, e \in S}

Leaves == {Number(1), Number(6), Number(7)}
Shallow == Leaves \cup ArraysOf(Leaves, MaxWidth) \cup ObjectsOf(Leaves)
Nested == ArraysOf(Shallow, 2) \cup ObjectsOf(Shallow)

\* [1, [6, 2], {"a": 7, "b": 3}]
NumbersExample ==
    Array(<<Number(1), Array(<<Number(6), Number(2)>>),
            Object(<< <<"a", Number(7)>>, <<"b", Number(3)>> >>)>>)
\* {"x": 1, "y": {"x": 2}}
KeyExample ==
    Object(<< <<"x", Number(1)>>, <<"y", Object(<< <<"x", Number(2)>> >>)>> >>)

CrawlDocs == Shallow \cup Nested \cup {NumbersExample, KeyExample}

\* {"text": s}
TextOf(s) == Object(<< <<"text", String(s)>> >>)
\* {"runs": [..]}
RunsOf(r) == Object(<< <<"runs", Array(r)>> >>)

\* the elements of the runs arrays: bare text wrappers, a wrapper with a second
\* key, a plain string and a number
Fragments ==
    { TextOf(<<"A">>), TextOf(<<" ", " ">>), TextOf(<<"B">>), TextOf(<<>>),
      Object(<< <<"bold", Null>>, <<"text", String(<<"B">>)>> >>),
      String(<<" ", "C", " ">>),
      Number(1) }

\* {"runs": [{"text": "A"}, {"text": "  "}, {"text": "B"}]}
RunsExample == RunsOf(<<TextOf(<<"A">>), TextOf(<<" ", " ">>), TextOf(<<"B">>)>>)

TextDocs ==
    Fragments
      \cup {RunsOf(r) : r \in SeqsUpTo(Fragments, MaxRuns)}
      \cup { Object(<< <<"runs", String(<<"A">>)>> >>),
             Object(<< <<"runs", Array(<<TextOf(<<"A">>)>>)>>, <<"text", String(<<"B">>)>> >>),
             Object(<< <<"text", RunsOf(<<TextOf(<<"A">>), String(<<"B">>)>>)>>, <<"x", Null>> >>) }

\* the member of an object for a key, or no member when the value is Null here
Member(key, v) == IF v = Null THEN <<>> ELSE << <<key, v>> >>

\* {"browseEndpoint": {"browseId": id}}
EndpointOf(id) == Object(<< <<"browseEndpoint", Object(<< <<"browseId", id>> >>)>> >>)

BrowseIds ==
    { <<"X", "Y", "Z", "1", "2", "3">>, <<"V", "L", "X", "Y", "Z", "1", "2", "3">>,
      <<"V", "L">>, <<"V">>, <<"L", "V", "X">>, <<"V", "L", "V", "L">>, <<>> }

\* the values under "title", "subtitle" and "navigationEndpoint"; Null stands for
\* a key the object does not have
TitleValues ==
    { Null, String(<<"T">>), TextOf(<<"T">>), RunsOf(<<String(<<"T">>)>>),
      Object(<< <<"bold", Null>>, <<"text", String(<<"T">>)>> >>) }
SubtitleValues == { Null, String(<<"S">>), Number(1) }
EndpointValues ==
    { Null, Object(<<>>), String(<<"V", "L">>), EndpointOf(Number(1)) }
      \cup {EndpointOf(String(id)) : id \in BrowseIds}

\* the members are in key order
PlaylistDocs ==
    { Object(Member("navigationEndpoint", n) \o Member("subtitle", s) \o Member("title", t)) :
        n \in EndpointValues, s \in SubtitleValues, t \in TitleValues }

\* {"title": "T", "navigationEndpoint": {"browseEndpoint": {"browseId": id}}}
PlaylistExample(id) ==
    Object(Member("navigationEndpoint", EndpointOf(String(id))) \o Member("title", String(<<"T">>)))

Docs == CrawlDocs \cup TextDocs \cup PlaylistDocs

----------------------------------------------------------------------------
(* The calls of the functions of structs.rs *)

NoCall == [fn |-> "none"]

Call_from_json(m) ==
    /\ call = NoCall
    /\ call' = [fn |-> "from_json", m |-> m]
    /\ ret' = from_json(value, m)
    /\ applied' = crawl(value, m).applied
    /\ UNCHANGED <<value, searchVars, stopVars, screenVars>>

Call_get_playlist ==
    /\ call = NoCall
    /\ call' = [fn |-> "get_playlist"]
    /\ ret' = get_playlist(value)
    /\ applied' = <<>>
    /\ UNCHANGED <<value, searchVars, stopVars, screenVars>>

Call_get_text(text_clean, dot) ==
    /\ call = NoCall
    /\ call' = [fn |-> "get_text", text_clean |-> text_clean, dot |-> dot]
    /\ ret' = get_text(value, text_clean, dot)
    /\ applied' = <<>>
    /\ UNCHANGED <<value, searchVars, stopVars, screenVars>>

----------------------------------------------------------------------------
(* Search::new, search.rs:211-225, and the statics of main.rs *)

Init ==
    /\ text = <<>>
    /\ search_handle = 0
    /\ list = <<>>
    /\ api \in BOOLEAN
    /\ DATABASE = [i \in 1..DbSize |-> i]
    /\ tasks = <<>>
    /\ expansions = <<>>
    /\ log = EmptyBag
    /\ searchCalls = <<>>
    /\ alive = 0
    /\ SIGNALING_STOP = 0
    /\ shutdowns = 0
    /\ stopped = 0
    /\ wrapBit = FALSE
    /\ action_sender = <<>>
    /\ downloads = <<>>
    /\ response = EventNone
    /\ executed = None
    /\ value = Null
    /\ call = NoCall
    /\ ret = None
    /\ applied = <<>>

Next ==
    \/ \E key \in Keys : on_key_press(key)
    \/ \E t \in 1..Len(tasks) : SleepElapsed(t)
    \/ \E t \in 1..Len(tasks) : \E r \in SearchResponses(tasks[t].text) : SearchReturns(t, r)
    \/ \E t \in 1..Len(tasks) : WriteResults(t)
    \/ \E t \in 1..Len(tasks) : CancelAtAwait(t)
    \/ \E x \in 1..Len(expansions) : \E r \in BrowseResponses : BrowseReturns(x, r)
    \/ DatabaseInsert

Spec == Init /\ [][Next]_vars

NextStop ==
    \/ run_service
    \/ FutureCompletes
    \/ StoppedBySignal
    \/ AbortWrapped
    \/ shutdown

\* the pipeline with all the handlers of the screen
NextScreen ==
    \/ Next
    \/ \E i \in {0} \cup Selectable(list) : \E control \in BOOLEAN : on_mouse_press(i, control)
    \/ on_key_press_Esc
    \/ \E i \in Selectable(list) : \E control \in BOOLEAN : on_key_press_entry(i, control)
    \/ handle_global_message
    \/ close
    \/ open

SpecScreen == Init /\ [][NextScreen]_vars

SpecStop == Init /\ [][NextStop]_vars

\* the tokio runtime polls a task whose recv_async has a message to take
FairStop == SpecStop /\ WF_vars(StoppedBySignal)

\* the functions of structs.rs are pure: each run calls one of them on one document
InitJson ==
    /\ text = <<>>
    /\ search_handle = 0
    /\ list = <<>>
    /\ api = FALSE
    /\ DATABASE = <<>>
    /\ tasks = <<>>
    /\ expansions = <<>>
    /\ log = EmptyBag
    /\ searchCalls = <<>>
    /\ alive = 0
    /\ SIGNALING_STOP = 0
    /\ shutdowns = 0
    /\ stopped = 0
    /\ wrapBit = FALSE
    /\ action_sender = <<>>
    /\ downloads = <<>>
    /\ response = EventNone
    /\ executed = None
    /\ value \in Docs
    /\ call = NoCall
    /\ ret = None
    /\ applied = <<>>

NextJson ==
    \/ \E m \in Matchers : Call_from_json(m)
    \/ \E text_clean \in BOOLEAN : \E dot \in BOOLEAN : Call_get_text(text_clean, dot)
    \/ Call_get_playlist

SpecJson == InitJson /\ [][NextJson]_vars

----------------------------------------------------------------------------
(* Vocabulary of the properties *)

TaskIds == 1..Len(tasks)

Ended(t) == tasks[t].pc \in {"done", "cancelled"}

\* spawned, not ended, and its handle not aborted
InFlight(t) == ~Ended(t) /\ ~tasks[t].aborted

\* the api.search calls task t has issued
CallsOf(t) == {i \in 1..Len(searchCalls) : searchCalls[i][1] = t}

\* aborted before it issued its search call, that is during its 300ms wait
Debounced(t) == tasks[t].aborted /\ CallsOf(t) = {}

\* the abort found the task suspended at one of its two .await points
AbortedAtAwait(t) == tasks[t].aborted /\ tasks[t].pc \in {"sleep", "search", "cancelled"}

----------------------------------------------------------------------------
(* C1: at most one remote-search task is in flight (spawned, not ended, not
   aborted), and it is the one search_handle holds: each earlier task was
   aborted by the input-changed transition that spawned its successor, or had
   ended before it. *)
C1_AtMostOneInFlight ==
    /\ Cardinality({t \in TaskIds : InFlight(t)}) <= 1
    /\ \A t \in TaskIds : InFlight(t) => search_handle = t
    /\ \A t \in TaskIds : t < Len(tasks) => tasks[t].aborted \/ Ended(t)
    /\ search_handle \in {0, Len(tasks)}

\* the second task is in flight while the first, aborted after its answer came, still runs
C1_Witness ==
    /\ Len(tasks) = 2
    /\ InFlight(2)
    /\ search_handle = 2
    /\ tasks[1].aborted
    /\ tasks[1].pc = "write"

(* C2: a task aborted during its 300ms wait never issues its search call; every
   task issues at most one call, for its own encoded text; so when q1's task was
   aborted while waiting and q2's task is past its wait, exactly one call has
   been made and it is q2's. *)
C2_Debounce ==
    /\ [](\A t \in TaskIds :
            /\ Cardinality(CallsOf(t)) <= 1
            /\ tasks[t].pc = "sleep" => CallsOf(t) = {}
            /\ \A i \in CallsOf(t) : searchCalls[i][2] = encode(tasks[t].text))
    /\ [](Len(tasks) = 2 /\ Debounced(1) /\ tasks[2].pc \notin {"sleep", "cancelled"}
            => searchCalls = << <<2, encode(tasks[2].text)>> >>)
    /\ [][\A t \in TaskIds : Debounced(t) => Debounced(t)']_vars

\* "B" then "BB" within the wait: the first task is cancelled, the one call is for "BB"
C2_Witness ==
    /\ Len(tasks) = 2
    /\ tasks[1].text = <<"B">>
    /\ tasks[2].text = <<"B", "B">>
    /\ Debounced(1)
    /\ tasks[1].pc = "cancelled"
    /\ searchCalls = << <<2, <<"B", "B">> >> >>

(* C3, as claimed: once its handle is aborted a task never afterwards overwrites
   the list, at whatever point of its body the abort arrives. *)
C3_NeverOverwritesOnceAborted ==
    [][\A t \in TaskIds :
         tasks[t].aborted =>
            ~(/\ tasks[t].pc = "write"
              /\ tasks'[t].pc = "done"
              /\ list' = tasks[t].local \o tasks[t].item)]_vars

(* C3, amended: a task whose abort arrives while it is suspended at the debounce
   wait or at the search call never leaves that point but to be cancelled, so it
   never overwrites the list. *)
C3_AbandonedAtAwait ==
    [][\A t \in TaskIds : AbortedAtAwait(t) => AbortedAtAwait(t)']_vars

\* a task was cancelled after it had issued its search call
C3_Witness ==
    \E t \in TaskIds : tasks[t].pc = "cancelled" /\ CallsOf(t) # {}

----------------------------------------------------------------------------
(* Vocabulary of the list properties *)

\* a step of on_key_press that is an input-changed transition
TextChanges == trim(text') # trim(text)

\* the two characters are equal up to case
SameLetter(a, b) == LowerChar(a) = LowerChar(b)

\* q occurs in s, case-insensitively
OccursIn(q, s) ==
    \E i \in 0..(Len(s) - Len(q)) : \A k \in 1..Len(q) : SameLetter(s[i + k], q[k])

\* the positions of the index whose title or author holds q
MatchingAt(db, q) ==
    {i \in 1..Len(db) : OccursIn(q, Title(db[i])) \/ OccursIn(q, Author(db[i]))}

PositionIn(db, v) == CHOOSE i \in 1..Len(db) : db[i] = v

\* l is the first at most 100 matching items of db, in index order, each tagged Local
IsLocalAnswer(l, db, q) ==
    LET m == MatchingAt(db, q)
    IN  /\ Len(l) <= 100
        /\ \A k \in 1..Len(l) :
              /\ l[k].st = "Local"
              /\ \E i \in m : db[i] = l[k].v
        /\ \A k \in 1..(Len(l) - 1) : PositionIn(db, l[k].v) < PositionIn(db, l[k + 1].v)
        /\ Len(l) = 100 \/ Len(l) = Cardinality(m)
        /\ l # <<>> =>
              Cardinality({i \in m : i <= PositionIn(db, l[Len(l)].v)}) = Len(l)

NotPlayLists(l) == SelectSeq(l, LAMBDA x : x.st # "PlayList")

LoggedFor(t) == CopiesIn(<<"search", t>>, log)

(* C4: each input-changed transition leaves in the list exactly the first at most
   100 items of DATABASE, in index order, whose title or author holds the new
   text case-insensitively, each tagged Local; the new remote task is then still
   at its sleep and no search call has gone out for it. *)
C4_LocalMatchesFirst ==
    [][TextChanges =>
         /\ IsLocalAnswer(list', DATABASE, text')
         /\ searchCalls' = searchCalls
         /\ api => /\ search_handle' = Len(tasks) + 1
                   /\ tasks'[search_handle'].pc = "sleep"
                   /\ tasks'[search_handle'].local = list']_vars

\* the text was deleted: all 102 videos match the empty text and the first 100 are listed
C4_Witness ==
    /\ text = <<>>
    /\ search_handle = 2
    /\ tasks[2].pc = "sleep"
    /\ Len(DATABASE) > 100
    /\ Len(list) = 100
    /\ list[100] = Local(DATABASE[100])

(* C5: a failed api.search is logged exactly once; the failing task then leaves
   the list unchanged until its last statement, which writes the local matches
   computed at the input change; they then stay the list's media items through
   every step but a new input change and the last statement of an earlier,
   aborted task; and each later input-changed transition spawns a new remote
   task. *)
C5_FailureKeepsLocal ==
    /\ [](\A t \in TaskIds : LoggedFor(t) = IF tasks[t].res = "err" THEN 1 ELSE 0)
    /\ [][\A t \in TaskIds :
            /\ tasks[t].pc = "search" /\ tasks'[t].res = "err" => list' = list
            /\ tasks[t].res = "err" /\ tasks[t].pc = "write" /\ tasks'[t].pc = "done"
                 => list' = tasks[t].local]_vars
    /\ [][\A t \in TaskIds :
            /\ t = search_handle
            /\ tasks[t].res = "err"
            /\ tasks[t].pc = "done"
            /\ NotPlayLists(list) = tasks[t].local
            => \/ NotPlayLists(list') = tasks[t].local
               \/ TextChanges
               \/ \E u \in TaskIds :
                     u # t /\ tasks[u].pc = "write" /\ tasks'[u].pc = "done"]_vars
    /\ [][TextChanges /\ api =>
            /\ Len(tasks') = Len(tasks) + 1
            /\ search_handle' = Len(tasks')
            /\ tasks'[search_handle'].pc = "sleep"
            /\ ~tasks'[search_handle'].aborted]_vars

\* the first search failed and was logged once; the next input change started a new task
C5_Witness ==
    /\ Len(tasks) = 2
    /\ tasks[1].res = "err"
    /\ tasks[1].pc = "done"
    /\ ~tasks[1].aborted
    /\ log = SetToBag({<<"search", 1>>})
    /\ InFlight(2)
    /\ list = tasks[2].local

(* C6: every PlayList entry of the list has at least one member, and a playlist
   task whose browse_playlist answers with no member, or fails, leaves the list
   as it was. *)
C6_NoEmptyPlayList ==
    /\ [](\A i \in 1..Len(list) : list[i].st = "PlayList" => list[i].e # <<>>)
    /\ [][\A x \in 1..Len(expansions) :
            expansions[x].pc = "browse" /\ expansions'[x].out \in {"empty", "err"}
            => list' = list]_vars

\* one playlist was expanded to no member and is not listed, another one is listed
C6_Witness ==
    /\ \E x \in 1..Len(expansions) : expansions[x].out = "empty"
    /\ \E i \in 1..Len(list) : list[i].st = "PlayList" /\ list[i].e # <<>>

(* C7, as claimed: the last statement of the current query's task removes from
   the list no PlayList entry that a playlist task of this query has appended. *)
C7_PlayListsSurviveOverwrite ==
    [][\A t \in TaskIds :
         /\ t = search_handle
         /\ ~tasks[t].aborted
         /\ tasks[t].pc = "write"
         /\ tasks'[t].pc = "done"
         => \A i \in 1..Len(list) :
               list[i].st = "PlayList" /\ list[i].p.name = tasks[t].text
               => \E j \in 1..Len(list') : list'[j] = list[i]]_vars

(* C8: an input-changed transition leaves every playlist task as it is, and a
   playlist task waiting for its answer can always take it, whatever became of
   the search that spawned it. *)
C8_ExpansionsUntracked ==
    /\ [][TextChanges => expansions' = expansions]_vars
    /\ [](\A x \in 1..Len(expansions) :
            expansions[x].pc = "browse" =>
               ENABLED (\E r \in BrowseResponses : BrowseReturns(x, r)))

\* the list holds a PlayList of the first query while the text is the second query
C8_Witness ==
    /\ Len(tasks) = 2
    /\ search_handle = 2
    /\ tasks[2].text = text
    /\ tasks[1].text # text
    /\ \E i \in 1..Len(list) : list[i].st = "PlayList" /\ list[i].p.name = tasks[1].text

----------------------------------------------------------------------------
(* C9: each shutdown() queues exactly 100 wake-ups; a task stopped by the signal
   has taken exactly one of them and a task that ends otherwise none, so at most
   100 tasks per shutdown are stopped by the signal; once the wake-ups are used
   up, the tasks still alive cannot be stopped by it. *)
C9_WakeUpAccounting ==
    /\ SIGNALING_STOP >= 0
    /\ SIGNALING_STOP + stopped = StopCount * shutdowns
    /\ stopped <= StopCount * shutdowns
    /\ SIGNALING_STOP = 0 => ~ENABLED StoppedBySignal

\* one shutdown has stopped 100 tasks, no wake-up is left and tasks are still alive
C9_Witness ==
    /\ shutdowns = 1
    /\ stopped = StopCount
    /\ SIGNALING_STOP = 0
    /\ alive = MaxAlive - StopCount

\* shutdown() has just been called: its 100 wake-ups are queued, at most 100
\* wrapped tasks are alive
CalledWithFew == shutdowns >= 1 /\ SIGNALING_STOP >= StopCount /\ alive <= StopCount

(* C10: from a state where shutdown() has been called with at most 100 wrapped
   tasks alive, either a further task is wrapped or every wrapped task ends,
   although no task's own future need ever complete. *)
C10_ShutdownStopsAll ==
    \A b \in BOOLEAN :
        (CalledWithFew /\ wrapBit = b) ~> (alive = 0 \/ wrapBit # b)

\* all of 100 wrapped tasks were stopped by the signal of one shutdown
C10_Witness ==
    /\ shutdowns = 1
    /\ stopped = StopCount
    /\ alive = 0
----------------------------------------------------------------------------
(* Vocabulary of the crawl properties *)

\* the children of a node, in the order the crawl visits them
Children(v) ==
    CASE v.k = "array" -> v.a
      [] v.k = "object" -> values(v.o)
      [] OTHER -> <<>>

RECURSIVE ConcatAll(_)
ConcatAll(ss) == IF ss = <<>> THEN <<>> ELSE Head(ss) \o ConcatAll(Tail(ss))

\* the transformer's values of the matching nodes met in depth-first pre-order,
\* nothing below a matching node being met
RECURSIVE Met(_, _)
Met(v, m) ==
    IF transformer(m, v).some
    THEN <<transformer(m, v).v>>
    ELSE ConcatAll([i \in 1..Len(Children(v)) |-> Met(Children(v)[i], m)])

\* a sequence with only the first occurrence of each value kept
RECURSIVE FirstOccurrences(_)
FirstOccurrences(s) ==
    IF s = <<>>
    THEN <<>>
    ELSE LET front == SubSeq(s, 1, Len(s) - 1)
             last == s[Len(s)]
         IN  IF \E i \in 1..Len(front) : front[i] = last
             THEN FirstOccurrences(front)
             ELSE Append(FirstOccurrences(front), last)

NoDuplicates(s) == \A i, j \in 1..Len(s) : i # j => s[i] # s[j]

\* the paths of all the nodes of a document
RECURSIVE Paths(_)
Paths(v) ==
    {<<>>} \cup UNION { {<<i>> \o p : p \in Paths(Children(v)[i])} :
                        i \in 1..Len(Children(v)) }

RECURSIVE NodeAt(_, _)
NodeAt(v, p) == IF p = <<>> THEN v ELSE NodeAt(Children(v)[Head(p)], Tail(p))

Matches(v, p, m) == transformer(m, NodeAt(v, p)).some

\* p is a proper ancestor of q
Above(p, q) == Len(p) < Len(q) /\ SubSeq(q, 1, Len(p)) = p

(* C11: from_json never fails; its result has no two equal elements and is the
   sequence of the transformer's values of the matching nodes met in depth-first
   pre-order (array elements in index order, object members in key order) with
   only the first occurrence of each value kept; a transformer that matches no
   node of the document gives the empty sequence.  Numbers above 5 crawled over
   [1, [6, 2], {"a": 7, "b": 3}] give [6, 7]. *)
C11_CrawlResult ==
    call.fn = "from_json" =>
        /\ ret.ok
        /\ NoDuplicates(ret.v)
        /\ ret.v = FirstOccurrences(Met(value, call.m))
        /\ (\A p \in Paths(value) : ~Matches(value, p, call.m)) => ret.v = <<>>
        /\ (value = NumbersExample /\ call.m = "gt5") => ret.v = <<6, 7>>

\* a crawl that met a value a second time and dropped it
C11_Witness ==
    /\ call.fn = "from_json"
    /\ Len(ret.v) >= 2
    /\ Len(Met(value, call.m)) > Len(ret.v)

\* the transformer's value of the node at path p
ValueAt(v, p, m) == transformer(m, NodeAt(v, p)).v

\* the node at path p matches and none of its ancestors does
MatchesFirst(v, p, m) ==
    /\ Matches(v, p, m)
    /\ \A q \in Paths(v) : Above(q, p) => ~Matches(v, q, m)

(* C12: match-then-stop.  Once the transformer has yielded a value for a node,
   the crawl applies the transformer to no descendant of that node, also when
   the value was dropped as a duplicate; every value of the result is the value
   of a matching node with no matching ancestor.  An object that has the key "x",
   crawled over {"x": 1, "y": {"x": 2}}, gives the outer object only. *)
C12_MatchThenStop ==
    call.fn = "from_json" =>
        /\ \A i, j \in 1..Len(applied) :
               Above(applied[i], applied[j]) => ~Matches(value, applied[i], call.m)
        /\ \A k \in 1..Len(ret.v) :
               \E p \in Paths(value) :
                   MatchesFirst(value, p, call.m) /\ ValueAt(value, p, call.m) = ret.v[k]
        /\ (value = KeyExample /\ call.m = "has_x") => ret.v = <<KeyExample>>

\* a node matched with a value the result already held, above a node that would
\* have yielded a value the result does not hold
C12_Witness ==
    /\ call.fn = "from_json"
    /\ \E i, j \in 1..Len(applied) :
           /\ i < j
           /\ Matches(value, applied[i], call.m)
           /\ Matches(value, applied[j], call.m)
           /\ ValueAt(value, applied[i], call.m) = ValueAt(value, applied[j], call.m)
           /\ \E q \in Paths(value) :
                  /\ Above(applied[j], q)
                  /\ Matches(value, q, call.m)
                  /\ ~vec_contains(ret.v, ValueAt(value, q, call.m))

----------------------------------------------------------------------------
(* Vocabulary of the screen properties *)

\* the step is a handler's call of execute_status
Selects == executed'.some /\ screenVars' # screenVars

IsVideoHit(e) == e.st \in {"Local", "Unknown"}

(* C13: selecting a Local or Unknown entry sends exactly one AddVideoUnary of its
   video on action_sender and starts its download; the handler returns the
   PlayerFrom message if and only if CONTROL is not held (EventResponse::None
   otherwise).  Selecting a PlayList entry sends nothing, starts no download and
   no api call, and returns one Inspect message, passed to the playlist viewer,
   carrying the playlist's name and the videos the entry holds. *)
C13_Selection ==
    [][Selects =>
         LET e == executed'.v.e
             control == executed'.v.control
         IN  /\ \E i \in 1..Len(list) : list[i] = e
             /\ IsVideoHit(e) =>
                  /\ action_sender' = Append(action_sender, AddVideoUnary(e.v))
                  /\ downloads' = Append(downloads, e.v)
                  /\ response' = PlayerFrom("Playlist") <=> ~control
                  /\ control => response' = EventNone
             /\ ~IsVideoHit(e) =>
                  /\ action_sender' = action_sender
                  /\ downloads' = downloads
                  /\ searchCalls' = searchCalls
                  /\ tasks' = tasks
                  /\ expansions' = expansions
                  /\ response' = PassTo("PlaylistViewer", Inspect(e.p.name, "Search", e.e))
                  /\ e.e # <<>>
    ]_vars

\* a PlayList entry selected after the Unknown video was selected
C13_Witness ==
    /\ executed.some
    /\ executed.v.e.st = "PlayList"
    /\ response = PassTo("PlaylistViewer", Inspect(<<"B">>, "Search", <<RemoteOnly>>))
    /\ action_sender = <<AddVideoUnary(RemoteOnly)>>
    /\ downloads = <<RemoteOnly>>

----------------------------------------------------------------------------
(* Vocabulary of the text properties *)

\* {"text": <string>} and nothing else
IsBareText(v) ==
    /\ v.k = "object"
    /\ Len(v.o) = 1
    /\ v.o[1][1] = "text"
    /\ v.o[1][2].k = "string"

\* {"runs": [..]} and nothing else
IsRuns(v) ==
    /\ v.k = "object"
    /\ Len(v.o) = 1
    /\ v.o[1][1] = "runs"
    /\ v.o[1][2].k = "array"

RunsIn(v) == v.o[1][2].a

\* a runs mapping of bare text wrappers
IsBareRuns(v) == IsRuns(v) /\ \A i \in 1..Len(RunsIn(v)) : IsBareText(RunsIn(v)[i])

\* the strings of the wrappers of a runs mapping of bare text wrappers
FragmentsOf(v) == [i \in 1..Len(RunsIn(v)) |-> RunsIn(v)[i].o[1][2].s]

IsBlank(s) == \A i \in 1..Len(s) : s[i] = " "

NonBlank(frags) == SelectSeq(frags, LAMBDA x : ~IsBlank(x))

RECURSIVE JoinedWith(_, _)
JoinedWith(frags, sep) ==
    IF frags = <<>>
    THEN <<>>
    ELSE LET front == SubSeq(frags, 1, Len(frags) - 1)
         IN  IF front = <<>>
             THEN frags[1]
             ELSE JoinedWith(front, sep) \o sep \o frags[Len(frags)]

\* get_text is called on a runs mapping of bare text wrappers, one of them not blank
BareRunsCalled ==
    /\ call.fn = "get_text"
    /\ IsBareRuns(value)
    /\ NonBlank(FragmentsOf(value)) # <<>>

(* C14, as claimed: on a runs mapping of bare text wrappers get_text returns the
   non-blank fragments joined with the bullet separator whenever dot is set, also
   with text_clean set, and joined with one space when both flags are unset. *)
C14_BulletJoinAlsoWhenClean ==
    BareRunsCalled =>
        /\ call.dot =>
             ret = Some(JoinedWith(NonBlank(FragmentsOf(value)), <<" ", Bullet, " ">>))
        /\ (~call.text_clean /\ ~call.dot) =>
             ret = Some(JoinedWith(NonBlank(FragmentsOf(value)), <<" ">>))

(* C14, amended: on a runs mapping of bare text wrappers get_text returns, with
   text_clean unset, the non-blank fragments joined with the bullet separator if
   dot is set and with one space if not ("A * B" and "A B" for the runs "A", "  ",
   "B", the star standing for the bullet); with text_clean set every bare wrapper
   is suppressed and get_text returns None. *)
C14_BulletJoin ==
    BareRunsCalled =>
        /\ call.text_clean => ret = None
        /\ (~call.text_clean /\ call.dot) =>
             ret = Some(JoinedWith(NonBlank(FragmentsOf(value)), <<" ", Bullet, " ">>))
        /\ (~call.text_clean /\ ~call.dot) =>
             ret = Some(JoinedWith(NonBlank(FragmentsOf(value)), <<" ">>))
        /\ (value = RunsExample /\ ~call.text_clean /\ call.dot) =>
             ret = Some(<<"A", " ", Bullet, " ", "B">>)
        /\ (value = RunsExample /\ ~call.text_clean /\ ~call.dot) =>
             ret = Some(<<"A", " ", "B">>)

\* the runs "A", "  ", "B" joined with the bullet
C14_Witness ==
    /\ value = RunsExample
    /\ call = [fn |-> "get_text", text_clean |-> FALSE, dot |-> TRUE]
    /\ ret = Some(<<"A", " ", Bullet, " ", "B">>)

(* C15, as claimed: get_text on a runs mapping returns None whenever the joined
   text would be empty, in particular when every run extracts to an empty or
   whitespace-only string; it never returns Some of the empty string. *)
C15_NeverEmptyForRuns ==
    (call.fn = "get_text" /\ IsRuns(value)) =>
        /\ ret # Some(<<>>)
        /\ (\A i \in 1..Len(RunsIn(value)) :
               LET r == get_text(RunsIn(value)[i], call.text_clean, call.dot)
               IN  r.some => IsBlank(r.v))
             => ret = None

----------------------------------------------------------------------------
(* Vocabulary of the playlist properties *)

\* the object has a title get_text extracts (singletons suppressed, space join)
TitleExtractable(v) ==
    /\ v.k = "object"
    /\ contains_key(v.o, "title")
    /\ get_text(get(v.o, "title").v, TRUE, FALSE).some

\* the value at navigationEndpoint.browseEndpoint.browseId, if the path is there
AtBrowseIdPath(v) ==
    and_then_get(and_then_get(value_get(v, "navigationEndpoint"), "browseEndpoint"), "browseId")

HasBrowseIdString(v) == AtBrowseIdPath(v).some /\ AtBrowseIdPath(v).v.k = "string"

StartsWithVL(s) == Len(s) >= 2 /\ s[1] = "V" /\ s[2] = "L"

(* C16: get_playlist returns a Playlist exactly for an object with an extractable
   title and a string at navigationEndpoint.browseEndpoint.browseId that starts
   with "VL"; its browse_id is then that string without its first two characters
   and its name the extracted title.  Otherwise it returns None: no Playlist comes
   from a browseId without the prefix.  {"title": "T", ..browseId: "XYZ123"} is
   rejected and ..browseId: "VLXYZ123" gives the browse_id "XYZ123". *)
C16_PlaylistOnlyWithPrefix ==
    call.fn = "get_playlist" =>
        /\ ret.some <=>
             /\ TitleExtractable(value)
             /\ HasBrowseIdString(value)
             /\ StartsWithVL(AtBrowseIdPath(value).v.s)
        /\ ret.some =>
             /\ <<"V", "L">> \o ret.v.browse_id = AtBrowseIdPath(value).v.s
             /\ ret.v.name = get_text(get(value.o, "title").v, TRUE, FALSE).v
             /\ DOMAIN ret.v = {"name", "subtitle", "browse_id"}
        /\ value = PlaylistExample(<<"X", "Y", "Z", "1", "2", "3">>) => ret = None
        /\ value = PlaylistExample(<<"V", "L", "X", "Y", "Z", "1", "2", "3">>) =>
             ret = Some([name |-> <<"T">>, subtitle |-> <<>>,
                         browse_id |-> <<"X", "Y", "Z", "1", "2", "3">>])

\* the accepted example
C16_Witness ==
    /\ call.fn = "get_playlist"
    /\ value = PlaylistExample(<<"V", "L", "X", "Y", "Z", "1", "2", "3">>)
    /\ ret.some
    /\ ret.v.browse_id = <<"X", "Y", "Z", "1", "2", "3">>

----------------------------------------------------------------------------
(* Vocabulary of the remote-result properties *)

\* the local index holds a video with this id
HoldsId(db, v) == \E j \in 1..Len(db) : db[j] = v

\* task t takes the answer of its api.search in this step, and the answer is Ok
TakesOk(t) == tasks[t].pc = "search" /\ tasks'[t].res = "ok"

\* task t runs its last statement, update_contents, in this step
Writes(t) == tasks[t].pc = "write" /\ tasks'[t].pc = "done"

(* C17: a task whose api.search succeeded tags each returned video, in the
   returned order, Local if DATABASE holds its id when it is classified and
   Unknown otherwise (none is Unknown while DATABASE holds its id at that time),
   and its last statement overwrites the list with the local matches of its
   input change followed by these entries. *)
C17_RemoteAppended ==
    /\ [][\A t \in TaskIds :
            TakesOk(t) =>
                \E r \in SearchResponses(tasks[t].text) :
                    /\ r.ok
                    /\ Len(tasks'[t].item) = Len(r.v.e)
                    /\ \A i \in 1..Len(r.v.e) :
                           /\ tasks'[t].item[i].v = r.v.e[i]
                           /\ tasks'[t].item[i].st \in {"Local", "Unknown"}
                           /\ tasks'[t].item[i].st = "Local" <=> HoldsId(DATABASE, r.v.e[i])]_vars
    /\ [][\A t \in TaskIds :
            (Writes(t) /\ tasks[t].res = "ok") =>
                list' = tasks[t].local \o tasks[t].item]_vars

\* a task that was not aborted wrote its local matches and then both remote videos
\* as Local, the second one having entered the local index before the answer came
C17_Witness ==
    \E t \in TaskIds :
        /\ tasks[t].pc = "done"
        /\ tasks[t].res = "ok"
        /\ ~tasks[t].aborted
        /\ tasks[t].local # <<>>
        /\ list = tasks[t].local \o <<Local(1), Local(RemoteOnly)>>

\* task t takes the answer of its api.search in this step, and the answer is Err
TakesErr(t) == tasks[t].pc = "search" /\ tasks'[t].res = "err"

(* C18, as claimed: a task whose api.search failed logs and stops; from the
   failure on it performs no write to the list, so the list (with any PlayList
   entry appended since the input change) is after the task's last step what it
   was before it. *)
C18_FailedTaskNeverWrites ==
    [][\A t \in TaskIds :
         (TakesErr(t) \/ (Writes(t) /\ tasks[t].res = "err")) => list' = list]_vars

(* C18, amended: a task whose api.search failed logs once, leaving the list as
   it is, and then still runs its last statement: it overwrites the list with
   the local matches computed at its input change and nothing else, so any
   PlayList entry appended since that input change is removed by the write. *)
C18_FailedTaskRewritesLocal ==
    [][\A t \in TaskIds :
         /\ TakesErr(t) =>
              /\ list' = list
              /\ LoggedFor(t)' = LoggedFor(t) + 1
              /\ tasks'[t].pc = "write"
         /\ (Writes(t) /\ tasks[t].res = "err") =>
              /\ tasks[t].item = <<>>
              /\ list' = tasks[t].local
              /\ \A i \in 1..Len(list') : list'[i].st = "Local"]_vars

\* the second task failed and wrote its local matches again, after a playlist of
\* the first query had been appended to them
C18_Witness ==
    /\ Len(tasks) = 2
    /\ tasks[2].res = "err"
    /\ tasks[2].pc = "done"
    /\ list = tasks[2].local
    /\ \E x \in 1..Len(expansions) : expansions[x].out = "added"
    /\ tasks[1].pc = "done"

----------------------------------------------------------------------------
(* C19: a key press that leaves the trimmed text as it was (a space typed at an
   end of the text, a key that is no character, a delete on the empty text) is no
   input-changed transition: it aborts no task, spawns no task, leaves
   search_handle as it is and does not rewrite the list. *)
C19_SameTrimmedTextNoRestart ==
    /\ [][(text' # text /\ ~TextChanges) =>
            /\ tasks' = tasks
            /\ search_handle' = search_handle
            /\ list' = list
            /\ expansions' = expansions
            /\ searchCalls' = searchCalls]_vars
    /\ [][~TextChanges =>
            /\ Len(tasks') = Len(tasks)
            /\ search_handle' = search_handle
            /\ \A t \in TaskIds : tasks'[t].aborted = tasks[t].aborted]_vars

\* a space was typed after "B" while the task of "B" was in flight: it still is
C19_Witness ==
    /\ text = <<"B", " ">>
    /\ Len(tasks) = 1
    /\ search_handle = 1
    /\ tasks[1].text = <<"B">>
    /\ InFlight(1)
    /\ list = tasks[1].local

----------------------------------------------------------------------------
\* the step is the Esc key or a handler's call of execute_status
LeavesOrSelects ==
    /\ screenVars' # screenVars
    /\ response'.msg = "ChangeState" \/ executed'.some

\* the step aborts task t
Aborts(t) == tasks'[t].aborted /\ ~tasks[t].aborted

(* C20: Esc and the selection of an entry leave text, search_handle, the list and
   every task as they are, and so does every step that is no input-changed
   transition as far as the handle and the aborts go (close, open and
   handle_global_message among them): a task is aborted only by an
   input-changed transition, which aborts the task of search_handle.  A task
   that has its answer can run its update_contents whatever the screen did. *)
C20_OnlyInputChangeCancels ==
    /\ [][LeavesOrSelects =>
            /\ text' = text
            /\ search_handle' = search_handle
            /\ list' = list
            /\ tasks' = tasks
            /\ expansions' = expansions]_vars
    /\ [][\A t \in TaskIds : Aborts(t) => TextChanges /\ t = search_handle]_vars
    /\ [][search_handle' # search_handle => TextChanges]_vars
    /\ [][(text' = text /\ screenVars' # screenVars) =>
            /\ list' = list
            /\ tasks' = tasks]_vars
    /\ [](\A t \in TaskIds : tasks[t].pc = "write" => ENABLED WriteResults(t))

\* Esc was pressed while the task of search_handle had its answer: the task is not
\* aborted and its update_contents is still to come
C20_Witness ==
    /\ response = ChangeState(goto)
    /\ search_handle = 1
    /\ tasks[1].pc = "write"
    /\ tasks[1].res = "ok"
    /\ ~tasks[1].aborted
    /\ list # FinalContents(tasks[1])
    /\ ENABLED WriteResults(1)

============================================================================
